---- MODULE Spec2Model ----
(***************************************************************************)
(* Model of the guest address-space region tree of StratoVirt              *)
(* (address_space/src/region.rs): Region, its subregion list, the          *)
(* flat-view renderer, and the AddressSpace that installs the rendered     *)
(* FlatView.                                                                *)
(*                                                                         *)
(* A Region is a handle on shared cells (Arc): priority, size, offset,     *)
(* space and subregions of all clones of one region are the same cells,    *)
(* so the model keeps one entry per region id and a clone is the id.       *)
(* u64 values are scaled down to 0..U64_MAX.                               *)
(***************************************************************************)
EXTENDS Integers, Sequences, FiniteSets, TLC

VARIABLES
    region_type,   \* region id -> "Ram" | "IO" | "Container"    (immutable)
    size,          \* region id -> u64                            (immutable)
    priority,      \* region id -> i32
    offset,        \* region id -> GuestAddress within the parent
    space,         \* region id -> "none" | "as"   (Weak<AddressSpace>)
    subregions,    \* region id -> sequence of region ids
    flat_view,     \* the FlatView installed in the AddressSpace
    as_alive,      \* FALSE once the AddressSpace was dropped (Weak dangles)
    aborted,       \* TRUE once a call never returned (stack overflow, deadlock, panic)
    last,          \* the last call: operation, returned value, regeneration requested
    ncalls,        \* number of calls made so far
    fresh_only,    \* history: every call so far was an add_subregion of a region
                   \* listed nowhere, or a delete_subregion, and returned Ok
    gf,            \* the last generate_flatview call made directly: inputs and result
    mem,           \* region id -> the bytes of its host mapping (<<>> unless Ram)
    access,        \* the last read or write call: arguments and what it did
    ioevt,         \* RegionIoEventFd values and the last before() call on them
    hmm,           \* the last create_host_mmaps call: arguments and result
    thr            \* threads calling concurrently: their positions, locals and locks

vars == <<region_type, size, priority, offset, space, subregions,
          flat_view, as_alive, aborted, last, ncalls, fresh_only, gf,
          mem, access, ioevt, hmm, thr>>

\* What the region-tree operations and the renderer never touch.
datavars == <<mem, access, ioevt, hmm, thr>>

heapvars == <<region_type, size, priority, offset, space, subregions>>

(***************************************************************************)
(* Bounds of the model.                                                    *)
(***************************************************************************)
U64_MAX == 15        \* the largest u64, scaled down
MaxPriority == 1     \* priorities are 0..MaxPriority
MaxOffset == 2       \* offsets tried by set_offset and drawn for trees: 0..MaxOffset
MaxCalls == 3        \* calls in one run of the region-tree operations

Regions == DOMAIN region_type
None == -1
NoCall == [op |-> "none"]
Root == 1            \* the region the AddressSpace was built on

Min(a, b) == IF a <= b THEN a ELSE b
Max(a, b) == IF a >= b THEN a ELSE b

(***************************************************************************)
(* GuestAddress / AddressRange arithmetic.                                 *)
(***************************************************************************)
checked_add(a, b) == IF a + b > U64_MAX THEN None ELSE a + b

unchecked_add(a, b) == (a + b) % (U64_MAX + 1)

offset_from(a, b) == a - b

AddressRange(b, s) == [base |-> b, size |-> s]

end_addr(r) == unchecked_add(r.base, r.size)

\* Option::None of find_intersection: an intersection found is never empty.
NoRange == [base |-> 0, size |-> 0]

\* NoRange when the ranges do not intersect or an end address overflows.
find_intersection(a, b) ==
    LET a_end == checked_add(a.base, a.size)
        b_end == checked_add(b.base, b.size)
    IN  IF a_end = None \/ b_end = None THEN NoRange
        ELSE IF a_end <= b.base \/ b_end <= a.base THEN NoRange
        ELSE LET start == Max(a.base, b.base)
             IN  AddressRange(start, Min(a_end, b_end) - start)

(***************************************************************************)
(* Flat-view rendering.  h is the heap the rendering reads:                *)
(* [offset |-> ..., subregions |-> ...].                                   *)
(***************************************************************************)
FlatRange(b, s, r, oir) ==
    [addr_range |-> AddressRange(b, s), owner |-> r, offset_in_region |-> oir]

\* Vec::insert(index, x) with a 1-based index.
InsertAt(s, i, x) == SubSeq(s, 1, i - 1) \o <<x>> \o SubSeq(s, i, Len(s))

\* Vec::remove(index) with a 1-based index.
RemoveAt(s, i) == SubSeq(s, 1, i - 1) \o SubSeq(s, i + 1, Len(s))

\* The size of the piece inserted in the gap before fr.
RangeSizeWholeRemain(remain, fr_base, start) == remain

range_size(remain, fr_base, start) == Min(remain, offset_from(fr_base, start))

\* How far the cursor moves past fr.
StepWholeRemain(fr_end, start, remain) == remain

step(fr_end, start, remain) == Min(offset_from(fr_end, start), remain)

\* offset_in_region of the first piece: the distance of the clipped start
\* from the region's own base.
FirstOffsetZero(intersect, region_range) == 0

first_offset_in_region(intersect, region_range) ==
    offset_from(intersect.base, region_range.base)

\* The merge loop of render_terminate_region and the insertion after it.
RECURSIVE MergeLoop(_, _, _, _, _, _)
MergeLoop(fv, index, start, remain, oir, r) ==
    IF index > Len(fv)
    THEN IF remain > 0
         THEN InsertAt(fv, index, FlatRange(start, remain, r, oir))
         ELSE fv
    ELSE LET fr == fv[index]
             fr_end == end_addr(fr.addr_range)
         IN  IF start >= fr_end
             THEN MergeLoop(fv, index + 1, start, remain, oir, r)
             ELSE LET gap == start < fr.addr_range.base
                      fv1 == IF gap
                             THEN InsertAt(fv, index,
                                           FlatRange(start,
                                                     range_size(remain, fr.addr_range.base, start),
                                                     r, oir))
                             ELSE fv
                      index1 == IF gap THEN index + 1 ELSE index
                      st == step(fr_end, start, remain)
                  IN  IF remain - st = 0
                      THEN fv1
                      ELSE MergeLoop(fv1, index1 + 1, unchecked_add(start, st),
                                     remain - st, oir + st, r)

\* A rendering in progress: status "ok" | "exceeds" | "stack", the view so
\* far, and whether an unchecked addition wrapped around on the way.
Render(st, v, o) == [status |-> st, view |-> v, ovf |-> o]

\* A render_terminate_region that passes over a region outside the window.
RenderTerminateSkipping(r, base, addr_range, acc, h) ==
    LET region_base == unchecked_add(base, h.offset[r])
        region_range == AddressRange(region_base, size[r])
        ovf == acc.ovf \/ base + h.offset[r] > U64_MAX
        intersect == find_intersection(region_range, addr_range)
    IN  IF intersect = NoRange
        THEN Render("ok", acc.view, ovf)
        ELSE Render("ok",
                    MergeLoop(acc.view, 1, intersect.base, intersect.size,
                              offset_from(intersect.base, region_range.base), r),
                    ovf)

render_terminate_region(r, base, addr_range, acc, h) ==
    LET region_base == unchecked_add(base, h.offset[r])
        region_range == AddressRange(region_base, size[r])
        ovf == acc.ovf \/ base + h.offset[r] > U64_MAX
        intersect == find_intersection(region_range, addr_range)
    IN  IF intersect = NoRange
        THEN Render("exceeds", acc.view, ovf)
        ELSE Render("ok",
                    MergeLoop(acc.view, 1, intersect.base, intersect.size,
                              first_offset_in_region(intersect, region_range), r),
                    ovf)

\* fuel bounds the depth of nested containers: a cyclic region graph whose
\* offsets are 0 recurses until the stack is exhausted.  With an offset above
\* 0 on the cycle every round moves the base up inside a window no larger
\* than the root, so the window is empty before the fuel is used up.
RECURSIVE render_region_pass(_, _, _, _, _, _)
RECURSIVE RenderChildren(_, _, _, _, _, _, _)
RECURSIVE RenderChildrenReversed(_, _, _, _, _, _, _)
RenderChildrenReversed(subs, i, region_base, intersect, acc, h, fuel) ==
    IF acc.status # "ok" \/ i > Len(subs) THEN acc
    ELSE RenderChildrenReversed(subs, i + 1, region_base, intersect,
                                render_region_pass(subs[Len(subs) + 1 - i], region_base,
                                                   intersect, acc, h, fuel),
                                h, fuel)

\* The loop over the subregions of a container, in list order; the first
\* failure ends it.
RenderChildren(subs, i, region_base, intersect, acc, h, fuel) ==
    IF acc.status # "ok" \/ i > Len(subs) THEN acc
    ELSE RenderChildren(subs, i + 1, region_base, intersect,
                        render_region_pass(subs[i], region_base, intersect, acc, h, fuel),
                        h, fuel)

render_region_pass(r, base, addr_range, acc, h, fuel) ==
    IF region_type[r] # "Container"
    THEN render_terminate_region(r, base, addr_range, acc, h)
    ELSE IF fuel = 0 THEN Render("stack", acc.view, acc.ovf)
    ELSE LET region_base == unchecked_add(base, h.offset[r])
             region_range == AddressRange(region_base, size[r])
             ovf == acc.ovf \/ base + h.offset[r] > U64_MAX
             intersect == find_intersection(region_range, addr_range)
         IN  IF intersect = NoRange
             THEN Render("exceeds", acc.view, ovf)
             ELSE RenderChildren(h.subregions[r], 1, region_base, intersect,
                                 Render("ok", acc.view, ovf), h, fuel - 1)

\* Containers nested deeper than this repeat one container more often than
\* the window has addresses.
Fuel == Cardinality({r \in Regions : region_type[r] = "Container"}) * (size[Root] + 1)

\* The Result of generate_flatview: the view of a rendering that went
\* through; an error carries no view.
returned_flatview(res) ==
    IF res.status = "ok" THEN res ELSE Render(res.status, <<>>, res.ovf)

generate_flatview(r, base, addr_range, h) ==
    returned_flatview(
        IF region_type[r] = "Container"
        THEN render_region_pass(r, base, addr_range, Render("ok", <<>>, FALSE), h, Fuel)
        ELSE render_terminate_region(r, base, addr_range, Render("ok", <<>>, FALSE), h))

Heap == [offset |-> offset, subregions |-> subregions]

(***************************************************************************)
(* Region accessors and the list insertion of add_subregion.               *)
(***************************************************************************)
\* The index add_subregion inserts child at: the first entry whose priority
\* is not above the child's (1-based; Len + 1 when there is none).
RECURSIVE InsertIndexAfterEquals(_, _, _, _)
InsertIndexAfterEquals(sub_regions, index, child, prio) ==
    IF index > Len(sub_regions) THEN index
    ELSE IF prio[child] > prio[sub_regions[index]] THEN index
    ELSE InsertIndexAfterEquals(sub_regions, index + 1, child, prio)

RECURSIVE InsertIndex(_, _, _, _)
InsertIndex(sub_regions, index, child, prio) ==
    IF index > Len(sub_regions) THEN index
    ELSE IF prio[child] >= prio[sub_regions[index]] THEN index
    ELSE InsertIndex(sub_regions, index + 1, child, prio)

\* sub_regions.insert(index, child) of add_subregion.
InsertChild(sub_regions, child, prio) ==
    InsertAt(sub_regions, InsertIndex(sub_regions, 1, child, prio), child)

(***************************************************************************)
(* SpecFlat: generate_flatview as a function of the region tree and of     *)
(* its arguments.  Init draws a region tree; GenerateFlatview applies the  *)
(* function to a root, a base and an address range.                        *)
(***************************************************************************)
\* adds is a sequence of <<parent, child>>: the add_subregion calls, in order.
RECURSIVE BuildSubregions(_, _, _)
BuildSubregions(subs, adds, prio) ==
    IF adds = <<>> THEN subs
    ELSE LET p == Head(adds)[1]
             c == Head(adds)[2]
         IN  BuildSubregions([subs EXCEPT ![p] = InsertChild(subs[p], c, prio)],
                             Tail(adds), prio)

\* The layouts of test_generate_flatview, addresses divided by 1000:
\* regions A, B (containers), C, D, E (leaves) are 1..5.
LayoutTypes == <<"Container", "Container", "IO", "IO", "IO">>
LayoutAdds == << <<1, 2>>, <<1, 3>>, <<2, 4>>, <<2, 5>> >>
LayoutOffsets == <<0, 2, 0, 0, 2>>
S3Sizes == <<8, 4, 6, 1, 1>>
S3Priorities == <<0, 2, 1, 0, 0>>
S4Sizes == <<8, 5, 1, 3, 2>>
S4Priorities == <<0, 0, 0, 2, 3>>

\* The family of trees over A, B (containers), C, D (leaves).
FamilyTypes == <<"Container", "Container", "IO", "Ram">>
FamilySizes == { <<8, 4, 3, 2>>, <<8, 5, 1, 6>> }
FamilyParents == { p \in [2..4 -> {0, 1, 2}] : p[2] # 2 /\ p[3] # 0 /\ p[4] # 0 }

RECURSIVE FamilyAdds(_, _)
FamilyAdds(par, c) ==
    IF c > 4 THEN <<>>
    ELSE (IF par[c] = 0 THEN <<>> ELSE << <<par[c], c>> >>) \o FamilyAdds(par, c + 1)

InitRest ==
    /\ space = [r \in Regions |-> "none"]
    /\ flat_view = <<>>
    /\ as_alive = FALSE
    /\ aborted = FALSE
    /\ last = NoCall
    /\ ncalls = 0
    /\ fresh_only = TRUE
    /\ gf = NoCall
    /\ mem = [r \in Regions |-> <<>>]
    /\ access = NoCall
    /\ ioevt = NoCall
    /\ hmm = NoCall
    /\ thr = NoCall

InitLayout(sizes, prios) ==
    /\ region_type = LayoutTypes
    /\ size = sizes
    /\ priority = prios
    /\ offset = LayoutOffsets
    /\ subregions = BuildSubregions([r \in 1..5 |-> <<>>], LayoutAdds, prios)

InitFamily ==
    \E sz \in FamilySizes, par \in FamilyParents,
       pr \in [2..4 -> 0..MaxPriority], off \in [2..4 -> 0..MaxOffset] :
        LET prios == [r \in 1..4 |-> IF r = 1 THEN 0 ELSE pr[r]]
        IN  /\ region_type = FamilyTypes
            /\ size = sz
            /\ priority = prios
            /\ offset = [r \in 1..4 |-> IF r = 1 THEN 0 ELSE off[r]]
            /\ subregions = BuildSubregions([r \in 1..4 |-> <<>>],
                                            FamilyAdds(par, 2), prios)

InitFlat ==
    /\ \/ InitLayout(S3Sizes, S3Priorities)
       \/ InitLayout(S4Sizes, S4Priorities)
       \/ InitFamily
    /\ InitRest

GfBases == {0, 1}
GfRanges == { AddressRange(0, 8), AddressRange(1, 4), AddressRange(2, 6) }

\* A rendering that stores the absolute base it computed in the region.
GenerateFlatviewStoringBase(r, base, addr_range) ==
    /\ gf = NoCall
    /\ gf' = [op |-> "generate_flatview", root |-> r, base |-> base,
              addr_range |-> addr_range,
              res |-> generate_flatview(r, base, addr_range, Heap)]
    /\ offset' = [offset EXCEPT ![r] = unchecked_add(base, offset[r])]
    /\ UNCHANGED <<region_type, size, priority, space, subregions>>
    /\ UNCHANGED <<flat_view, as_alive, aborted, last, ncalls, fresh_only>>
    /\ UNCHANGED datavars

GenerateFlatview(r, base, addr_range) ==
    /\ gf = NoCall
    /\ gf' = [op |-> "generate_flatview", root |-> r, base |-> base,
              addr_range |-> addr_range,
              res |-> generate_flatview(r, base, addr_range, Heap)]
    /\ UNCHANGED <<heapvars, flat_view, as_alive, aborted, last, ncalls, fresh_only>>
    /\ UNCHANGED datavars

NextFlat ==
    \E r \in Regions, base \in GfBases, addr_range \in GfRanges :
        GenerateFlatview(r, base, addr_range)

SpecFlat == InitFlat /\ [][NextFlat]_vars

(***************************************************************************)
(* Region operations.                                                      *)
(***************************************************************************)
\* check_valid_offset with a wrapping addition.
CheckValidOffsetWrapping(self, addr, sz) == unchecked_add(addr, sz) <= size[self]

\* check_valid_offset without the comparison with the size.
CheckValidOffsetNoSizeTest(self, addr, sz) == checked_add(addr, sz) # None

\* check_valid_offset: TRUE for Ok.
check_valid_offset(self, addr, sz) ==
    LET end == checked_add(addr, sz)
    IN  end # None /\ end <= size[self]

\* impl PartialEq for Region.
RegionEq(a, b, h) ==
    /\ priority[a] = priority[b]
    /\ region_type[a] = region_type[b]
    /\ h.offset[a] = h.offset[b]
    /\ size[a] = size[b]

\* A Weak that upgrades after the AddressSpace was dropped.
UpgradesDangling(r, sp) == sp[r] = "as"

\* self.space.read().unwrap().upgrade() is Some.
Upgrades(r, sp) == sp[r] = "as" /\ as_alive

\* A scan that takes the first entry, whatever it is.
MatchIndexFirstEntry(sub_regions, index, child, h) ==
    IF Len(sub_regions) = 0 THEN 0 ELSE 1

\* The index of the first entry delete_subregion finds equal to child
\* (0 when there is none).
RECURSIVE MatchIndex(_, _, _, _)
MatchIndex(sub_regions, index, child, h) ==
    IF index > Len(sub_regions) THEN 0
    ELSE IF RegionEq(child, sub_regions[index], h) THEN index
    ELSE MatchIndex(sub_regions, index + 1, child, h)

\* update_topology installs whatever generate_flatview returned.
InstallAnyView(res, installed) == res.view

\* The FlatView installed after update_topology: the new one when
\* generate_flatview succeeded, the previous one when it failed.
install_flat_view(res, installed) ==
    IF res.status = "ok" THEN res.view ELSE installed

\* AddressSpace::update_topology renders the root over its whole range.
update_topology(h) ==
    generate_flatview(Root, 0, AddressRange(0, size[Root]), h)

\* What a call returned.  kind: "Ok", or the error "RegionType" (rtype),
\* "Overflow" (addr), "NoMatch", "Exceeds"; or how the call ended without
\* returning: "StackOverflow", "Deadlock", "Panic".
Returned(op, kind, addr, rtype, regen) ==
    [op |-> op, kind |-> kind, addr |-> addr, rtype |-> rtype, regen |-> regen]

\* The end of add_subregion and delete_subregion once the list was changed
\* and the AddressSpace could be upgraded: update_topology on the heap h,
\* then spaceOk as the back-links of a call that returns Ok.
Regenerate(op, h, space1, spaceOk) ==
    \E res \in {update_topology(h)} :
        \/ /\ res.status = "stack"
           /\ last' = Returned(op, "StackOverflow", 0, "", TRUE)
           /\ aborted' = TRUE
           /\ space' = space1
           /\ UNCHANGED flat_view
        \/ /\ res.status # "stack" /\ res.ovf
           /\ last' = Returned(op, "Panic", 0, "", TRUE)
           /\ aborted' = TRUE
           /\ space' = space1
           /\ UNCHANGED flat_view
        \/ /\ res.status = "exceeds"
           /\ last' = Returned(op, "Exceeds", 0, "", TRUE)
           /\ space' = space1
           /\ flat_view' = install_flat_view(res, flat_view)
           /\ UNCHANGED aborted
        \/ /\ res.status = "ok"
           /\ last' = Returned(op, "Ok", 0, "", TRUE)
           /\ flat_view' = install_flat_view(res, flat_view)
           /\ space' = spaceOk
           /\ UNCHANGED aborted

CanCall == ~aborted /\ ncalls < MaxCalls

\* The first test of add_subregion: self.region_type() != RegionType::Container.
AnyRegionType(self) == FALSE

NotContainer(self) == region_type[self] # "Container"

\* r is an entry of some subregion list.
Listed(r) == \E p \in Regions : \E i \in 1..Len(subregions[p]) : subregions[p][i] = r

add_subregion(self, child, off) ==
    /\ CanCall
    /\ ncalls' = ncalls + 1
    /\ UNCHANGED <<region_type, size, priority, as_alive, gf, datavars>>
    /\ IF NotContainer(self)
       THEN /\ last' = Returned("add_subregion", "RegionType", 0, region_type[self], FALSE)
            /\ UNCHANGED <<offset, space, subregions, flat_view, aborted>>
       ELSE IF ~check_valid_offset(self, off, size[child])
       THEN /\ last' = Returned("add_subregion", "Overflow", off, "", FALSE)
            /\ UNCHANGED <<offset, space, subregions, flat_view, aborted>>
       ELSE /\ offset' = [offset EXCEPT ![child] = off]
            /\ IF Upgrades(self, space) /\ child = self
               THEN \* the space cell is write-locked while its read lock is held
                    /\ last' = Returned("add_subregion", "Deadlock", 0, "", FALSE)
                    /\ aborted' = TRUE
                    /\ UNCHANGED <<space, subregions, flat_view>>
               ELSE LET space1 == IF Upgrades(self, space)
                                  THEN [space EXCEPT ![child] = "as"]
                                  ELSE space
                        subs1 == [subregions EXCEPT
                                    ![self] = InsertChild(@, child, priority)]
                    IN  /\ subregions' = subs1
                        /\ IF Upgrades(self, space1)
                           THEN Regenerate("add_subregion",
                                           [offset |-> offset', subregions |-> subs1],
                                           space1, space1)
                           ELSE /\ last' = Returned("add_subregion", "Ok", 0, "", FALSE)
                                /\ space' = space1
                                /\ UNCHANGED <<flat_view, aborted>>
    /\ fresh_only' = (fresh_only /\ ~Listed(child) /\ last'.kind = "Ok")

delete_subregion(self, child) ==
    /\ CanCall
    /\ ncalls' = ncalls + 1
    /\ UNCHANGED <<region_type, size, priority, offset, as_alive, gf, datavars>>
    /\ LET index == MatchIndex(subregions[self], 1, child, Heap)
       IN  IF index = 0
           THEN /\ last' = Returned("delete_subregion", "NoMatch", 0, "", FALSE)
                /\ UNCHANGED <<space, subregions, flat_view, aborted>>
           ELSE LET subs1 == [subregions EXCEPT ![self] = RemoveAt(@, index)]
                    cleared == [space EXCEPT ![child] = "none"]
                IN  /\ subregions' = subs1
                    /\ IF Upgrades(self, space)
                       THEN Regenerate("delete_subregion",
                                       [offset |-> offset, subregions |-> subs1],
                                       space, cleared)
                       ELSE /\ last' = Returned("delete_subregion", "Ok", 0, "", FALSE)
                            /\ space' = cleared
                            /\ UNCHANGED <<flat_view, aborted>>
    /\ fresh_only' = (fresh_only /\ last'.kind = "Ok")

set_priority(r, prior) ==
    /\ CanCall
    /\ ncalls' = ncalls + 1
    /\ priority' = [priority EXCEPT ![r] = prior]
    /\ last' = Returned("set_priority", "Ok", 0, "", FALSE)
    /\ fresh_only' = FALSE
    /\ UNCHANGED <<region_type, size, offset, space, subregions,
                   flat_view, as_alive, aborted, gf, datavars>>

set_offset(r, off) ==
    /\ CanCall
    /\ ncalls' = ncalls + 1
    /\ offset' = [offset EXCEPT ![r] = off]
    /\ last' = Returned("set_offset", "Ok", 0, "", FALSE)
    /\ fresh_only' = FALSE
    /\ UNCHANGED <<region_type, size, priority, space, subregions,
                   flat_view, as_alive, aborted, gf, datavars>>

\* The last Arc<AddressSpace> is dropped: every back-link dangles.
drop_address_space ==
    /\ CanCall
    /\ as_alive
    /\ ncalls' = ncalls + 1
    /\ as_alive' = FALSE
    /\ last' = Returned("drop_address_space", "Ok", 0, "", FALSE)
    /\ fresh_only' = FALSE
    /\ UNCHANGED <<heapvars, flat_view, aborted, gf, datavars>>

(***************************************************************************)
(* Spec: the operations on the regions of one AddressSpace, called one     *)
(* after the other.  Region 1 is the root the AddressSpace was built on.   *)
(***************************************************************************)
\* The regions of a run: their types and sizes.
Configs ==
    { [types |-> <<"Container", "Container", "Container", "IO">>, sizes |-> <<4, 2, 2, 1>>],
      [types |-> <<"Container", "Ram", "IO">>, sizes |-> <<4, 1, 0>>] }

\* The offsets add_subregion is tried with.
AddOffsets == {0, 1, U64_MAX}

\* The regions passed as a child and given a priority or an offset: all but
\* the root.
Children == Regions \ {Root}

Init ==
    /\ \E c \in Configs : region_type = c.types /\ size = c.sizes
    /\ priority = [r \in Regions |-> 0]
    /\ offset = [r \in Regions |-> 0]
    /\ space = [r \in Regions |-> IF r = Root THEN "as" ELSE "none"]
    /\ subregions = [r \in Regions |-> <<>>]
    /\ flat_view = <<>>
    /\ as_alive = TRUE
    /\ aborted = FALSE
    /\ last = NoCall
    /\ ncalls = 0
    /\ fresh_only = TRUE
    /\ gf = NoCall
    /\ mem = [r \in Regions |-> <<>>]
    /\ access = NoCall
    /\ ioevt = NoCall
    /\ hmm = NoCall
    /\ thr = NoCall

Next ==
    \/ \E self \in Regions, child \in Children, off \in AddOffsets :
        add_subregion(self, child, off)
    \/ \E self \in Regions, child \in Children : delete_subregion(self, child)
    \/ \E r \in Children, prior \in 0..MaxPriority : set_priority(r, prior)
    \/ \E r \in Children, off \in 0..MaxOffset : set_offset(r, off)
    \/ drop_address_space

Spec == Init /\ [][Next]_vars

(***************************************************************************)
(* Claims about generate_flatview (checked under SpecFlat).                *)
(***************************************************************************)
Generated == gf # NoCall /\ gf.res.status = "ok"

Addresses == 0..U64_MAX

InRange(x, rg) == rg.base <= x /\ x < rg.base + rg.size

\* The addresses a subtree covers: a leaf covers its absolute range, a
\* container what its children cover inside its own absolute range.
RECURSIVE Covered(_, _, _)
Covered(r, base, fuel) ==
    LET abs == AddressRange(unchecked_add(base, offset[r]), size[r])
        own == { x \in Addresses : InRange(x, abs) }
    IN  IF region_type[r] # "Container" THEN own
        ELSE IF fuel = 0 THEN {}
        ELSE own \cap UNION { Covered(subregions[r][i], abs.base, fuel - 1) :
                              i \in 1..Len(subregions[r]) }

\* The first leaf covering x in a depth-first traversal in list order
\* (0 when there is none).
RECURSIVE FirstLeaf(_, _, _, _)
RECURSIVE FirstLeafAmong(_, _, _, _, _)
FirstLeafAmong(subs, i, base, x, fuel) ==
    IF i > Len(subs) THEN 0
    ELSE LET l == FirstLeaf(subs[i], base, x, fuel)
         IN  IF l # 0 THEN l ELSE FirstLeafAmong(subs, i + 1, base, x, fuel)

FirstLeaf(r, base, x, fuel) ==
    LET abs == AddressRange(unchecked_add(base, offset[r]), size[r])
    IN  IF ~InRange(x, abs) THEN 0
        ELSE IF region_type[r] # "Container" THEN r
        ELSE IF fuel = 0 THEN 0
        ELSE FirstLeafAmong(subregions[r], 1, abs.base, x, fuel - 1)

\* The container a region is listed in, and the absolute base of a region
\* below the root of the call.
ParentOf(r) == CHOOSE p \in Regions : \E i \in 1..Len(subregions[p]) : subregions[p][i] = r

RECURSIVE AbsBase(_, _, _, _)
AbsBase(r, root, base, fuel) ==
    IF r = root \/ fuel = 0 THEN unchecked_add(base, offset[r])
    ELSE unchecked_add(AbsBase(ParentOf(r), root, base, fuel - 1), offset[r])

ViewOwners(v) == [i \in 1..Len(v) |-> v[i].owner]
ViewRanges(v) == [i \in 1..Len(v) |-> <<v[i].addr_range.base, v[i].addr_range.base + v[i].addr_range.size>>]
IsLayout(sizes, prios) == region_type = LayoutTypes /\ size = sizes /\ priority = prios
WholeOfA == gf # NoCall /\ gf.root = 1 /\ gf.base = 0 /\ gf.addr_range = AddressRange(0, 8)

C2_Coverage ==
    Generated =>
        { x \in Addresses :
            \E i \in 1..Len(gf.res.view) : InRange(x, gf.res.view[i].addr_range) }
        = { x \in Covered(gf.root, gf.base, Fuel) : InRange(x, gf.addr_range) }

\* a nested leaf covers an address, another address of addr_range is in no
\* leaf, and a leaf reaches beyond addr_range
C2_Witness ==
    /\ Generated
    /\ region_type[gf.root] = "Container"
    /\ \E i \in 1..Len(gf.res.view) : ParentOf(gf.res.view[i].owner) # gf.root
    /\ \E x \in Addresses : InRange(x, gf.addr_range) /\ x \notin Covered(gf.root, gf.base, Fuel)
    /\ \E x \in Addresses : ~InRange(x, gf.addr_range) /\ x \in Covered(gf.root, gf.base, Fuel)

\* C3: the owner of the FlatRange containing an address is the first leaf
\* covering the address in a depth-first traversal that takes the children
\* of each container in list order; layout S3 yields C,D,C,E,C over [0,6)
\* and layout S4 yields C[0,1), D[2,4), E[4,6) (addresses in thousands).
C3_FirstLeafOwns ==
    /\ Generated =>
        \A x \in Addresses : \A i \in 1..Len(gf.res.view) :
            InRange(x, gf.res.view[i].addr_range)
                => gf.res.view[i].owner = FirstLeaf(gf.root, gf.base, x, Fuel)
    /\ (IsLayout(S3Sizes, S3Priorities) /\ WholeOfA) =>
        /\ gf.res.status = "ok"
        /\ ViewOwners(gf.res.view) = <<3, 4, 3, 5, 3>>
        /\ ViewRanges(gf.res.view) = << <<0, 2>>, <<2, 3>>, <<3, 4>>, <<4, 5>>, <<5, 6>> >>
    /\ (IsLayout(S4Sizes, S4Priorities) /\ WholeOfA) =>
        /\ gf.res.status = "ok"
        /\ ViewOwners(gf.res.view) = <<3, 4, 5>>
        /\ ViewRanges(gf.res.view) = << <<0, 1>>, <<2, 4>>, <<4, 6>> >>

\* layout S3 rendered over the whole of A: C is shadowed by the leaves of the
\* higher-priority container B and owns what they leave uncovered inside B
C3_Witness ==
    /\ IsLayout(S3Sizes, S3Priorities) /\ WholeOfA /\ Generated
    /\ \E i \in 1..Len(gf.res.view) :
        /\ gf.res.view[i].owner = 3
        /\ InRange(gf.res.view[i].addr_range.base,
                   AddressRange(unchecked_add(0, offset[2]), size[2]))

\* C4: offset_in_region of every FlatRange is the distance of its base from
\* the absolute base of its owner, so the piece lies inside the owner, also
\* when the owner is split into several FlatRanges.
C4_OffsetInRegion ==
    Generated =>
        \A i \in 1..Len(gf.res.view) :
            LET fr == gf.res.view[i]
            IN  /\ fr.offset_in_region
                     = fr.addr_range.base - AbsBase(fr.owner, gf.root, gf.base, Fuel)
                /\ fr.offset_in_region + fr.addr_range.size <= size[fr.owner]

\* a leaf split into pieces, the later pieces at offsets above 0, and a
\* piece whose start was clipped
C4_Witness ==
    /\ Generated
    /\ \E i, j \in 1..Len(gf.res.view) :
        /\ i < j
        /\ gf.res.view[i].owner = gf.res.view[j].owner
        /\ gf.res.view[j].offset_in_region > gf.res.view[i].offset_in_region
        /\ gf.res.view[i].offset_in_region > 0

(***************************************************************************)
(* Claims about the region-tree operations (checked under Spec).           *)
(***************************************************************************)
\* C5: whenever every call so far was a successful add_subregion of a region
\* listed nowhere or a successful delete_subregion, the FlatView installed in
\* the AddressSpace is generate_flatview of the root over its full range.
C5_ViewIsRendering ==
    (fresh_only /\ as_alive) =>
        LET res == update_topology(Heap)
        IN  res.status = "ok" /\ flat_view = res.view

\* C6: every subregion list is in descending priority order.
C6_SortedByPriority ==
    \A p \in Regions : \A i \in 1..(Len(subregions[p]) - 1) :
        priority[subregions[p][i]] >= priority[subregions[p][i + 1]]

\* The position add_subregion(self, child, _) put child at, when the step
\* inserted it.
Inserted(self, child, k) ==
    /\ k \in 1..(Len(subregions[self]) + 1)
    /\ subregions'[self] = InsertAt(subregions[self], k, child)

InsertingAdd(self, child, off) ==
    /\ add_subregion(self, child, off)
    /\ Len(subregions'[self]) = Len(subregions[self]) + 1

\* C7 as stated: among children of equal priority the one added earlier
\* precedes the one added later, so add_subregion puts the new child after
\* every incumbent of its priority.
C7_EarlierFirst ==
    [][last'.op = "add_subregion" =>
       \A self \in Regions, child \in Children, off \in AddOffsets :
         InsertingAdd(self, child, off) =>
            \E k \in 1..(Len(subregions[self]) + 1) :
                /\ Inserted(self, child, k)
                /\ \A i \in 1..Len(subregions[self]) :
                     priority[subregions[self][i]] = priority[child] => i < k]_vars

\* C7: add_subregion puts the new child before the first incumbent whose
\* priority is not above its own: every entry before it has a strictly
\* higher priority, so among children of equal priority the one added later
\* precedes the ones added earlier.
C7_LaterFirst ==
    [][last'.op = "add_subregion" =>
       \A self \in Regions, child \in Children, off \in AddOffsets :
         InsertingAdd(self, child, off) =>
            \E k \in 1..(Len(subregions[self]) + 1) :
                /\ Inserted(self, child, k)
                /\ \A i \in 1..Len(subregions[self]) :
                     /\ i < k => priority[subregions[self][i]] > priority[child]
                     /\ priority[subregions[self][i]] = priority[child] => i >= k
                /\ k <= Len(subregions[self])
                     => priority[subregions[self][k]] <= priority[child]]_vars

\* a list of two different regions of equal priority, the last call an
\* add_subregion that returned Ok
C7_Witness ==
    /\ last.op = "add_subregion" /\ last.kind = "Ok"
    /\ \E p \in Regions :
        /\ Len(subregions[p]) = 2
        /\ subregions[p][1] # subregions[p][2]
        /\ priority[subregions[p][1]] = priority[subregions[p][2]]

\* C8: every child c listed in a container p has c.offset + c.size <= p.size.
C8_ChildInsideParent ==
    \A p \in Regions : \A i \in 1..Len(subregions[p]) :
        offset[subregions[p][i]] + size[subregions[p][i]] <= size[p]

\* C9: add_subregion on a Ram or IO region returns the RegionType error of
\* the receiver's type and changes nothing: the receiver's list stays empty,
\* offsets, back-links and the installed FlatView keep their values, and no
\* regeneration is requested.
C9_NonContainerRejected ==
    [][last'.op = "add_subregion" =>
       \A self \in Regions, child \in Children, off \in AddOffsets :
         (region_type[self] # "Container" /\ add_subregion(self, child, off)) =>
            /\ last'.kind = "RegionType"
            /\ last'.rtype = region_type[self]
            /\ ~last'.regen
            /\ subregions'[self] = <<>>
            /\ UNCHANGED <<subregions, offset, space, priority, flat_view, aborted>>]_vars

\* a Ram region refused a child while a tree was assembled
C9_Witness ==
    /\ last.op = "add_subregion" /\ last.kind = "RegionType" /\ last.rtype = "Ram"
    /\ \E p \in Regions : subregions[p] # <<>>

\* C10: add_subregion(child, offset) on a container returns Overflow(offset)
\* exactly when offset + child.size overflows u64 or exceeds the container's
\* size; then lists, offsets and back-links are unchanged; otherwise
\* child.offset is offset afterwards and the child is in the list (unless the
\* container is added to itself inside an AddressSpace, where the call blocks
\* on the space lock before the insertion).
C10_OverflowExactly ==
    [][last'.op = "add_subregion" =>
       \A self \in Regions, child \in Children, off \in AddOffsets :
         (region_type[self] = "Container" /\ add_subregion(self, child, off)) =>
            LET over == \/ off + size[child] > U64_MAX
                        \/ off + size[child] > size[self]
            IN  /\ (last'.kind = "Overflow") <=> over
                /\ over => /\ last'.addr = off
                           /\ ~last'.regen
                           /\ UNCHANGED <<subregions, offset, space, flat_view>>
                /\ ~over => /\ offset'[child] = off
                            /\ last'.kind # "Deadlock" =>
                                 \E k \in 1..(Len(subregions[self]) + 1) :
                                     Inserted(self, child, k)]_vars

\* an offset whose sum with the size of any child is beyond u64 was refused
\* by a container that already has a child
C10_Witness ==
    /\ last.op = "add_subregion" /\ last.kind = "Overflow" /\ last.addr = U64_MAX
    /\ \A c \in Children : size[c] > 0
    /\ \E p \in Regions : subregions[p] # <<>>

\* Some subregion list holds two entries equal under PartialEq for Region.
EqualEntries ==
    \E p \in Regions : \E i, j \in 1..Len(subregions[p]) :
        i < j /\ RegionEq(subregions[p][i], subregions[p][j], Heap)

\* C11: add_subregion returns an error when the child already exists in the
\* list, so an add_subregion that returns Ok never leaves two entries equal
\* under (priority, region_type, offset, size) in a list.
C11_NoEqualEntries ==
    [][(last'.op = "add_subregion" /\ last'.kind = "Ok" /\ ~EqualEntries)
          => ~EqualEntries']_vars

\* No entry of self's list equals child.
NoEntryEquals(self, child) ==
    \A i \in 1..Len(subregions[self]) : ~RegionEq(child, subregions[self][i], Heap)

\* C12: delete_subregion(child) on a list with no entry equal to child
\* returns the 'no matched region' error, requests no regeneration and leaves
\* the lists, the back-links and the installed FlatView as they were.
C12_NoMatchChangesNothing ==
    [][last'.op = "delete_subregion" =>
       \A self \in Regions, child \in Children :
         (NoEntryEquals(self, child) /\ delete_subregion(self, child)) =>
            /\ last'.kind = "NoMatch"
            /\ ~last'.regen
            /\ UNCHANGED <<subregions, space, flat_view, offset, priority, aborted>>]_vars

\* a delete_subregion found no match in a tree that holds other regions
C12_Witness ==
    /\ last.op = "delete_subregion" /\ last.kind = "NoMatch"
    /\ \E p \in Regions : subregions[p] # <<>>

\* C13: whenever delete_subregion(child) removes an entry, exactly one entry
\* is gone and the others keep their order, child's back-link is cleared,
\* and the FlatView installed in the owning AddressSpace is the rendering of
\* the tree without that entry.
C13_DeleteClearsAndRegenerates ==
    [][last'.op = "delete_subregion" =>
       \A self \in Regions, child \in Children :
         (delete_subregion(self, child) /\ subregions'[self] # subregions[self]) =>
            /\ \E k \in 1..Len(subregions[self]) :
                 subregions'[self] = RemoveAt(subregions[self], k)
            /\ space'[child] = "none"
            /\ Upgrades(self, space) =>
                 LET res == update_topology([offset |-> offset', subregions |-> subregions'])
                 IN  res.status = "ok" /\ flat_view' = res.view]_vars

\* C14: when add_subregion or delete_subregion returns the error of a failed
\* FlatView regeneration, the FlatView installed before the call is still
\* the installed one.
C14_FailedRegenerationKeepsView ==
    [][(last'.op \in {"add_subregion", "delete_subregion"} /\ last'.regen) =>
         \A res \in {update_topology([offset |-> offset', subregions |-> subregions'])} :
            /\ (res.status = "exceeds" /\ ~res.ovf) => last'.kind = "Exceeds"
            /\ last'.kind = "Exceeds" => (res.status = "exceeds" /\ flat_view' = flat_view)]_vars

\* a regeneration failed while a FlatView with a range was installed
C14_Witness ==
    /\ last.op \in {"add_subregion", "delete_subregion"}
    /\ last.kind = "Exceeds"
    /\ flat_view # <<>>

(***************************************************************************)
(* Region::read and Region::write.  A destination is a sink that takes     *)
(* cap bytes and then fails; a source is the bytes it supplies before its  *)
(* end.                                                                    *)
(***************************************************************************)
MaxByte == 1         \* bytes are 0..MaxByte

Bytes == 0..MaxByte

\* usize::MAX as u64 on a 64-bit target.
USIZE_MAX == U64_MAX

\* The call is a read of what the call before it, a completed write, wrote.
FollowsWrite(op, r, off, count) ==
    /\ op = "read"
    /\ access # NoCall
    /\ access.op = "write" /\ access.kind = "Ok"
    /\ access.region = r /\ access.offset = off /\ access.count = count

\* What a read or write call did.  kind: "Ok", or the error "Overflow"
\* (addr), "RegionType", "IoAccess" (addr), "Io" (the std::io error of the
\* source or the destination); sink: the bytes the destination took;
\* callbacks: the RegionOps calls made; data: the bytes a completed write
\* took from its source; follows_write (history): the call reads back what
\* the call before it wrote.
Accessed(op, r, off, count, kind, addr, sink, callbacks) ==
    [op |-> op, region |-> r, offset |-> off, count |-> count, kind |-> kind,
     addr |-> addr, sink |-> sink, callbacks |-> callbacks, data |-> <<>>,
     follows_write |-> FollowsWrite(op, r, off, count)]

\* dst.write_all(slice).
write_all(slice, cap) ==
    [ok |-> Len(slice) <= cap, taken |-> SubSeq(slice, 1, Min(Len(slice), cap))]

\* src.read_exact(buf): the new contents of buf.  After a source that ends
\* early the contents of buf are unspecified: a reader that tests the length
\* first leaves buf alone, the default implementation has stored what the
\* source supplied (partial).
read_exact(buf, src, partial) ==
    IF Len(src) >= Len(buf)
    THEN [ok |-> TRUE, buf |-> SubSeq(src, 1, Len(buf))]
    ELSE [ok |-> FALSE,
          buf |-> IF partial THEN src \o SubSeq(buf, Len(src) + 1, Len(buf)) ELSE buf]

\* The slice of count bytes at offset of a host mapping, and the mapping
\* after the slice was overwritten.
slice_at(m, off, count) == SubSeq(m, off + 1, off + count)

StoreSliceAtZero(m, off, data) ==
    [i \in 1..Len(m) |-> IF i <= Len(data) THEN data[i] ELSE m[i]]

store_slice(m, off, data) ==
    [i \in 1..Len(m) |-> IF off < i /\ i <= off + Len(data) THEN data[i - off] ELSE m[i]]

\* A match that sends a container down the IO arm.
MatchContainerAsIO(r) == IF region_type[r] = "Container" THEN "IO" ELSE region_type[r]

\* match self.region_type of read and write.
matched_region_type(r) == region_type[r]

read(r, base, off, count, cap, dev_ok, fill) ==
    /\ UNCHANGED <<heapvars, flat_view, as_alive, aborted, last, ncalls, fresh_only, gf>>
    /\ UNCHANGED <<mem, ioevt, hmm, thr>>
    /\ IF ~check_valid_offset(r, off, count)
       THEN access' = Accessed("read", r, off, count, "Overflow", off, <<>>, <<>>)
       ELSE IF matched_region_type(r) = "Ram"
       THEN LET w == write_all(slice_at(mem[r], off, count), cap)
            IN  access' = Accessed("read", r, off, count,
                                   IF w.ok THEN "Ok" ELSE "Io", 0, w.taken, <<>>)
       ELSE IF matched_region_type(r) = "IO"
       THEN IF count >= USIZE_MAX
            THEN access' = Accessed("read", r, off, count, "Overflow", count, <<>>, <<>>)
            ELSE LET slice == [i \in 1..count |-> fill]
                     cb == [op |-> "read", len |-> count, base |-> base, offset |-> off]
                     w == write_all(slice, cap)
                 IN  IF ~dev_ok
                     THEN access' = Accessed("read", r, off, count, "IoAccess", off,
                                             <<>>, <<cb>>)
                     ELSE access' = Accessed("read", r, off, count,
                                             IF w.ok THEN "Ok" ELSE "Io", 0, w.taken, <<cb>>)
       ELSE access' = Accessed("read", r, off, count, "RegionType", 0, <<>>, <<>>)

write(r, base, off, count, src, partial, dev_ok) ==
    /\ UNCHANGED <<heapvars, flat_view, as_alive, aborted, last, ncalls, fresh_only, gf>>
    /\ UNCHANGED <<ioevt, hmm, thr>>
    /\ IF ~check_valid_offset(r, off, count)
       THEN /\ access' = Accessed("write", r, off, count, "Overflow", off, <<>>, <<>>)
            /\ UNCHANGED mem
       ELSE IF matched_region_type(r) = "Ram"
       THEN LET got == read_exact(slice_at(mem[r], off, count), src, partial)
            IN  /\ mem' = [mem EXCEPT ![r] = store_slice(@, off, got.buf)]
                /\ access' = [Accessed("write", r, off, count,
                                       IF got.ok THEN "Ok" ELSE "Io", 0, <<>>, <<>>)
                               EXCEPT !.data = IF got.ok THEN got.buf ELSE <<>>]
       ELSE IF matched_region_type(r) = "IO"
       THEN /\ UNCHANGED mem
            /\ IF count >= USIZE_MAX
               THEN access' = Accessed("write", r, off, count, "Overflow", count, <<>>, <<>>)
               ELSE LET got == read_exact([i \in 1..count |-> 0], src, partial)
                        cb == [op |-> "write", data |-> got.buf, base |-> base, offset |-> off]
                    IN  IF ~got.ok
                        THEN access' = Accessed("write", r, off, count, "Io", 0, <<>>, <<>>)
                        ELSE access' = [Accessed("write", r, off, count,
                                                 IF dev_ok THEN "Ok" ELSE "IoAccess",
                                                 IF dev_ok THEN 0 ELSE off, <<>>, <<cb>>)
                                         EXCEPT !.data = IF dev_ok THEN got.buf ELSE <<>>]
       ELSE /\ access' = Accessed("write", r, off, count, "RegionType", 0, <<>>, <<>>)
            /\ UNCHANGED mem

(***************************************************************************)
(* SpecAccess: reads and writes on a container of size U64_MAX that holds  *)
(* a Ram region of 2 bytes and an IO region of size U64_MAX.               *)
(***************************************************************************)
AccessTypes == <<"Container", "Ram", "IO">>
AccessSizes == <<U64_MAX, 2, U64_MAX>>
AccessAdds == << <<1, 2>>, <<1, 3>> >>

\* Offsets and counts of the calls, capacities of the destinations, sources.
AccessOffsets == {0, 1, 2, U64_MAX}
AccessCounts == {0, 1, 2, U64_MAX}
Caps == {0, 1, U64_MAX}
Sources == UNION { [1..n -> Bytes] : n \in {0, 1, 2} }

\* What a call on r never looks at is not varied.
OnlyFor(type, r, values, fixed) == IF region_type[r] = type THEN values ELSE {fixed}

InitAccess ==
    /\ region_type = AccessTypes
    /\ size = AccessSizes
    /\ priority = [r \in 1..3 |-> 0]
    /\ offset = [r \in 1..3 |-> 0]
    /\ subregions = BuildSubregions([r \in 1..3 |-> <<>>], AccessAdds, priority)
    /\ space = [r \in Regions |-> "none"]
    /\ flat_view = <<>>
    /\ as_alive = FALSE
    /\ aborted = FALSE
    /\ last = NoCall
    /\ ncalls = 0
    /\ fresh_only = TRUE
    /\ gf = NoCall
    /\ \E m \in [1..AccessSizes[2] -> Bytes] :
         mem = [r \in 1..3 |-> IF r = 2 THEN m ELSE <<>>]
    /\ access = NoCall
    /\ ioevt = NoCall
    /\ hmm = NoCall
    /\ thr = NoCall

NextAccess ==
    \/ \E r \in Regions, off \in AccessOffsets, count \in AccessCounts, cap \in Caps :
         \E dev_ok \in OnlyFor("IO", r, BOOLEAN, TRUE), fill \in OnlyFor("IO", r, Bytes, 0) :
            read(r, 0, off, count, cap, dev_ok, fill)
    \/ \E r \in Regions, off \in AccessOffsets, count \in AccessCounts, src \in Sources :
         \E partial \in OnlyFor("Ram", r, BOOLEAN, FALSE),
            dev_ok \in OnlyFor("IO", r, BOOLEAN, TRUE) :
            write(r, 0, off, count, src, partial, dev_ok)

SpecAccess == InitAccess /\ [][NextAccess]_vars

(***************************************************************************)
(* Claims about read, write and check_valid_offset (checked under          *)
(* SpecAccess).                                                            *)
(***************************************************************************)
InBounds(r, off, count) == off + count <= U64_MAX /\ off + count <= size[r]

\* C15: check_valid_offset(addr, size) is Ok exactly when addr + size does
\* not overflow u64 and is at most the size of the region; a read or write
\* that succeeds has offset + count within the region, and one outside it
\* returns Overflow(offset) with memory untouched, nothing delivered and no
\* callback made.
C15_OffsetsChecked ==
    [][/\ check_valid_offset(access'.region, access'.offset, access'.count)
            <=> InBounds(access'.region, access'.offset, access'.count)
       /\ access'.kind = "Ok" => InBounds(access'.region, access'.offset, access'.count)
       /\ ~InBounds(access'.region, access'.offset, access'.count) =>
            /\ access'.kind = "Overflow" /\ access'.addr = access'.offset
            /\ access'.sink = <<>> /\ access'.callbacks = <<>>
            /\ mem' = mem]_vars

\* a write whose offset + count wraps around u64 was refused
C15_Witness ==
    /\ access # NoCall
    /\ access.op = "write" /\ access.kind = "Overflow"
    /\ access.offset = U64_MAX /\ access.count > 0
    /\ region_type[access.region] = "Ram"

\* C16: a read or write on a container with an offset and count inside it
\* returns RegionType(Container), delivers nothing, makes no callback and
\* leaves memory alone, whatever children the container has.
C16_ContainerNotAccessible ==
    [][(/\ region_type[access'.region] = "Container"
        /\ InBounds(access'.region, access'.offset, access'.count)) =>
            /\ access'.kind = "RegionType"
            /\ access'.sink = <<>> /\ access'.callbacks = <<>>
            /\ mem' = mem]_vars

\* a write of two bytes inside a container that holds a Ram and an IO region
C16_Witness ==
    /\ access # NoCall
    /\ access.op = "write" /\ access.kind = "RegionType" /\ access.count = 2
    /\ region_type[access.region] = "Container"
    /\ Len(subregions[access.region]) = 2

\* C17: a write of s to a Ram region that succeeds puts s at [offset,
\* offset + |s|) and leaves the other bytes as they were, and the read of the
\* same offset and count that follows delivers what the destination takes of
\* s: all of s, with Ok, when the destination takes |s| bytes.
C17_RamRoundTrip ==
    [][/\ (/\ access'.op = "write" /\ access'.kind = "Ok"
           /\ region_type[access'.region] = "Ram") =>
            /\ Len(access'.data) = access'.count
            /\ \A i \in 1..Len(mem[access'.region]) :
                 mem'[access'.region][i] =
                    IF access'.offset < i /\ i <= access'.offset + access'.count
                    THEN access'.data[i - access'.offset]
                    ELSE mem[access'.region][i]
       /\ (/\ access # NoCall
           /\ access.op = "write" /\ access.kind = "Ok"
           /\ region_type[access.region] = "Ram") =>
            \A cap \in Caps :
                read(access.region, 0, access.offset, access.count, cap, TRUE, 0) =>
                    /\ access'.sink = SubSeq(access.data, 1, Min(cap, access.count))
                    /\ cap >= access.count =>
                         (access'.kind = "Ok" /\ access'.sink = access.data)]_vars

\* a read delivered the two bytes the write before it had put into a Ram
\* region
C17_Witness ==
    /\ access # NoCall
    /\ access.op = "read" /\ access.kind = "Ok" /\ access.follows_write
    /\ region_type[access.region] = "Ram"
    /\ access.count = 2 /\ access.sink = mem[access.region]
    /\ access.sink[1] # access.sink[2]

\* C18: a write that returns an error has modified no byte of a Ram region
\* and has not handed partial data to the write callback of a device, and a
\* read of an IO region whose callback returned false delivers nothing.
C18_AllOrNothing ==
    [][/\ (access'.op = "write" /\ access'.kind # "Ok") =>
            /\ mem' = mem
            /\ \A i \in 1..Len(access'.callbacks) :
                 Len(access'.callbacks[i].data) = access'.count
       /\ (access'.op = "read" /\ access'.kind = "IoAccess") => access'.sink = <<>>]_vars

(***************************************************************************)
(* RegionIoEventFd::before.  Three events, built like those of             *)
(* test_region_ioeventfd and changed through their public fields; fd       *)
(* stands for the EventFd of each, which before() does not look at; cmp is *)
(* the last before() call made on the events as they are now.              *)
(***************************************************************************)
\* A comparison that skips the data_match fields.
BeforeIgnoringDataMatch(self, other) ==
    IF self.addr_range.base # other.addr_range.base
    THEN self.addr_range.base < other.addr_range.base
    ELSE IF self.addr_range.size # other.addr_range.size
    THEN self.addr_range.size < other.addr_range.size
    ELSE IF self.data # other.data
    THEN self.data < other.data
    ELSE FALSE

before(self, other) ==
    IF self.addr_range.base # other.addr_range.base
    THEN self.addr_range.base < other.addr_range.base
    ELSE IF self.addr_range.size # other.addr_range.size
    THEN self.addr_range.size < other.addr_range.size
    ELSE IF self.data_match # other.data_match
    THEN self.data_match /\ ~other.data_match
    ELSE IF self.data # other.data
    THEN self.data < other.data
    ELSE FALSE

\* Values the fields are set to.
EvtBases == {0, 1}
EvtSizes == {2, 4}
EvtData == {0, 1}
Events == 1..3

InitBefore ==
    /\ region_type = <<>>
    /\ size = <<>>
    /\ priority = <<>>
    /\ offset = <<>>
    /\ subregions = <<>>
    /\ space = <<>>
    /\ flat_view = <<>>
    /\ as_alive = FALSE
    /\ aborted = FALSE
    /\ last = NoCall
    /\ ncalls = 0
    /\ fresh_only = TRUE
    /\ gf = NoCall
    /\ mem = <<>>
    /\ access = NoCall
    /\ hmm = NoCall
    /\ thr = NoCall
    /\ ioevt = [fds |-> [i \in Events |->
                           [fd |-> i, addr_range |-> [base |-> 0, size |-> 4],
                            data_match |-> FALSE, data |-> 0]],
                cmp |-> NoCall]

SetAddrRange(i, base, sz) ==
    /\ ioevt' = [ioevt EXCEPT !.fds[i].addr_range = [base |-> base, size |-> sz], !.cmp = NoCall]
    /\ UNCHANGED <<heapvars, flat_view, as_alive, aborted, last, ncalls, fresh_only, gf>>
    /\ UNCHANGED <<mem, access, hmm, thr>>

SetDataMatch(i, b) ==
    /\ ioevt' = [ioevt EXCEPT !.fds[i].data_match = b, !.cmp = NoCall]
    /\ UNCHANGED <<heapvars, flat_view, as_alive, aborted, last, ncalls, fresh_only, gf>>
    /\ UNCHANGED <<mem, access, hmm, thr>>

SetData(i, d) ==
    /\ ioevt' = [ioevt EXCEPT !.fds[i].data = d, !.cmp = NoCall]
    /\ UNCHANGED <<heapvars, flat_view, as_alive, aborted, last, ncalls, fresh_only, gf>>
    /\ UNCHANGED <<mem, access, hmm, thr>>

\* fds[i].before(&fds[j]), recorded.
Before(i, j) ==
    /\ ioevt' = [ioevt EXCEPT !.cmp = [op |-> "before", self |-> i, other |-> j,
                                       result |-> before(ioevt.fds[i], ioevt.fds[j])]]
    /\ UNCHANGED <<heapvars, flat_view, as_alive, aborted, last, ncalls, fresh_only, gf>>
    /\ UNCHANGED <<mem, access, hmm, thr>>

NextBefore ==
    \/ \E i \in Events, base \in EvtBases, sz \in EvtSizes : SetAddrRange(i, base, sz)
    \/ \E i \in Events, b \in BOOLEAN : SetDataMatch(i, b)
    \/ \E i \in Events, d \in EvtData : SetData(i, d)
    \/ \E i, j \in Events : Before(i, j)

SpecBefore == InitBefore /\ [][NextBefore]_vars

\* The key of an event, and the lexicographic order of keys with
\* data_match = true first.
EvtKey(e) == <<e.addr_range.base, e.addr_range.size, IF e.data_match THEN 0 ELSE 1, e.data>>

KeyLess(k, l) ==
    \E n \in 1..4 : k[n] < l[n] /\ \A m \in 1..(n - 1) : k[m] = l[m]

\* C19: before is a strict total order over the key (base, size, data_match,
\* data) with data_match = true first: irreflexive, asymmetric, transitive;
\* of two events with different keys exactly one is before the other, of two
\* with equal keys neither is; and every recorded call returned that order.
C19_BeforeStrictTotalOrder ==
    ioevt # NoCall =>
      /\ \A a, b, c \in {ioevt.fds[i] : i \in Events} :
           /\ ~before(a, a)
           /\ before(a, b) => ~before(b, a)
           /\ (before(a, b) /\ before(b, c)) => before(a, c)
           /\ EvtKey(a) # EvtKey(b) => (before(a, b) /\ ~before(b, a)) \/ (before(b, a) /\ ~before(a, b))
           /\ EvtKey(a) = EvtKey(b) => ~before(a, b) /\ ~before(b, a)
           /\ before(a, b) <=> KeyLess(EvtKey(a), EvtKey(b))
      /\ ioevt.cmp # NoCall =>
           (ioevt.cmp.result <=>
              KeyLess(EvtKey(ioevt.fds[ioevt.cmp.self]), EvtKey(ioevt.fds[ioevt.cmp.other])))

\* an event with data_match set and the larger data was found before one of
\* the same address range without data_match, and a third event lies before
\* both
C19_Witness ==
    /\ ioevt # NoCall
    /\ ioevt.cmp # NoCall
    /\ ioevt.cmp.result
    /\ LET a == ioevt.fds[ioevt.cmp.self]
           b == ioevt.fds[ioevt.cmp.other]
       IN  /\ a.addr_range = b.addr_range
           /\ a.data_match /\ ~b.data_match
           /\ a.data > b.data
           /\ \E i \in Events : before(ioevt.fds[i], a) /\ before(ioevt.fds[i], b)

(***************************************************************************)
(* Claims about the failure of generate_flatview (checked under SpecFlat). *)
(***************************************************************************)
\* The window the children of container r are rendered in, for r rendered at
\* base in the window clip.
ClipOf(r, base, clip) ==
    find_intersection(AddressRange(unchecked_add(base, offset[r]), size[r]), clip)

\* Some region of the subtree of r, rendered at base in the window clip, has
\* no intersection with the window passed to it; depth bounds the nesting.
RECURSIVE Misses(_, _, _, _)
Misses(r, base, clip, depth) ==
    \/ ClipOf(r, base, clip) = NoRange
    \/ /\ region_type[r] = "Container"
       /\ depth > 0
       /\ \E i \in 1..Len(subregions[r]) :
            Misses(subregions[r][i], unchecked_add(base, offset[r]),
                   ClipOf(r, base, clip), depth - 1)

\* C20: generate_flatview returns the 'region exceeds' error, and no
\* FlatView, exactly when some region of the traversal (the root, a nested
\* container or a leaf) has no intersection with the window passed to it; a
\* call that returns a FlatView has passed over no such region.
C20_ExceedsWheneverOutside ==
    gf # NoCall =>
      LET misses == Misses(gf.root, gf.base, gf.addr_range, Cardinality(Regions))
      IN  /\ misses => (gf.res.status = "exceeds" /\ gf.res.view = <<>>)
          /\ ~misses => gf.res.status = "ok"

\* the call failed on the second child of the root after the first child, a
\* leaf inside the window, had been rendered
C20_Witness ==
    /\ gf # NoCall
    /\ gf.res.status = "exceeds"
    /\ region_type[gf.root] = "Container"
    /\ Len(subregions[gf.root]) >= 2
    /\ LET region_base == unchecked_add(gf.base, offset[gf.root])
           clip == ClipOf(gf.root, gf.base, gf.addr_range)
           first == subregions[gf.root][1]
           second == subregions[gf.root][2]
       IN  /\ clip # NoRange
           /\ region_type[first] # "Container"
           /\ ClipOf(first, region_base, clip) # NoRange
           /\ Misses(second, region_base, clip, Cardinality(Regions))

(***************************************************************************)
(* SpecTwice: generate_flatview called a second time with the arguments of *)
(* the first call, on the trees of SpecFlat.                               *)
(***************************************************************************)
\* The second call: again is what it returned.
GenerateFlatviewAgain(r, base, addr_range) ==
    /\ gf # NoCall
    /\ gf.op = "generate_flatview"
    /\ r = gf.root /\ base = gf.base /\ addr_range = gf.addr_range
    /\ gf' = [op |-> "generate_flatview_again", root |-> r, base |-> base,
              addr_range |-> addr_range, res |-> gf.res,
              again |-> generate_flatview(r, base, addr_range, Heap)]
    /\ UNCHANGED <<heapvars, flat_view, as_alive, aborted, last, ncalls, fresh_only>>
    /\ UNCHANGED datavars

NextTwice ==
    \/ \E r \in Regions, base \in GfBases, addr_range \in GfRanges :
         GenerateFlatview(r, base, addr_range)
    \/ \E r \in Regions, base \in GfBases, addr_range \in GfRanges :
         GenerateFlatviewAgain(r, base, addr_range)

SpecTwice == InitFlat /\ [][NextTwice]_vars

BackendFd == 3

\* The host address space holds the live mappings side by side.
HostSpace == U64_MAX

\* A loop that never advances the offset of the backend.
AdvanceNever(fb_offset, sz) == fb_offset

\* fb.offset += range.1, before the overflow test.
advance(fb_offset, sz) == fb_offset + sz

\* libc::mmap in HostMemMapping::new returned a mapping.
mmap_ok(sz, mapped, i, env) == sz > 0 /\ mapped + sz <= HostSpace /\ env.fail_at # i

HostMemMapping(guest_addr, sz, fd, file_offset) ==
    [start_address |-> guest_addr, size |-> sz, fd |-> fd, file_offset |-> file_offset]

HostMmaps(status, mappings) == [status |-> status, mappings |-> mappings]

RECURSIVE SumSizes(_, _)
SumSizes(ranges, n) == IF n = 0 THEN 0 ELSE SumSizes(ranges, n - 1) + ranges[n][2]

\* The loop over the ranges: i is the next index, fb_offset the offset of the
\* backend, mapped the bytes mapped so far.
RECURSIVE MapRanges(_, _, _, _, _, _, _)
MapRanges(ranges, i, backed, fb_offset, mapped, mappings, env) ==
    IF i > Len(ranges) THEN HostMmaps("Ok", mappings)
    ELSE LET range == ranges[i]
             fd == IF backed THEN BackendFd ELSE -1
             file_offset == IF backed THEN fb_offset ELSE 0
             next == IF backed THEN advance(fb_offset, range[2]) ELSE fb_offset
         IN  IF ~mmap_ok(range[2], mapped, i, env)
             THEN HostMmaps("Mmap", <<>>)
             ELSE IF next > U64_MAX /\ env.overflow_checks
             THEN HostMmaps("Panic", <<>>)
             ELSE MapRanges(ranges, i + 1, backed, next % (U64_MAX + 1),
                            mapped + range[2],
                            Append(mappings,
                                   HostMemMapping(range[1], range[2], fd, file_offset)),
                            env)

create_host_mmaps(ranges, mem_path, mem_share, env) ==
    LET backed == mem_path # "" \/ mem_share
        file_len == SumSizes(ranges, Len(ranges))
    IN  IF backed /\ file_len > U64_MAX /\ env.overflow_checks
        THEN HostMmaps("Panic", <<>>)
        ELSE IF backed /\ ~env.backend_ok
        THEN HostMmaps("Backend", <<>>)
        ELSE MapRanges(ranges, 1, backed, 0, 0, <<>>, env)

(***************************************************************************)
(* SpecMmaps: create_host_mmaps applied to up to three ranges.             *)
(***************************************************************************)
RangeBases == {0, 4}
RangeSizes == {0, 1, 2, U64_MAX}
RangeLists == UNION { [1..n -> RangeBases \X RangeSizes] : n \in 0..3 }
MemPaths == {"", "/dev/shm"}
Envs == [backend_ok : BOOLEAN, fail_at : 0..3, overflow_checks : BOOLEAN]

InitMmaps ==
    /\ region_type = <<>>
    /\ size = <<>>
    /\ priority = <<>>
    /\ offset = <<>>
    /\ subregions = <<>>
    /\ space = <<>>
    /\ flat_view = <<>>
    /\ as_alive = FALSE
    /\ aborted = FALSE
    /\ last = NoCall
    /\ ncalls = 0
    /\ fresh_only = TRUE
    /\ gf = NoCall
    /\ mem = <<>>
    /\ access = NoCall
    /\ ioevt = NoCall
    /\ hmm = NoCall
    /\ thr = NoCall

CreateHostMmaps(ranges, mem_path, mem_share, env) ==
    /\ hmm = NoCall
    /\ hmm' = [op |-> "create_host_mmaps", ranges |-> ranges, mem_path |-> mem_path,
               mem_share |-> mem_share,
               res |-> create_host_mmaps(ranges, mem_path, mem_share, env)]
    /\ UNCHANGED <<heapvars, flat_view, as_alive, aborted, last, ncalls, fresh_only, gf>>
    /\ UNCHANGED <<mem, access, ioevt, thr>>

NextMmaps ==
    \E ranges \in RangeLists, mem_path \in MemPaths, mem_share \in BOOLEAN, env \in Envs :
        CreateHostMmaps(ranges, mem_path, mem_share, env)

SpecMmaps == InitMmaps /\ [][NextMmaps]_vars

\* C22: create_host_mmaps returns one mapping per range, in the order of the
\* ranges, with the base and the size of its range.  With a backing file
\* (mem_path set, or mem_share without mem_path) all mappings have the same
\* descriptor, the file_offset of the i-th is the sum of the sizes of the
\* ranges before it, the file slices are pairwise disjoint and the offsets
\* never decrease; without one every mapping has fd -1 and file_offset 0.
C22_MappingsFollowRanges ==
    (hmm # NoCall /\ hmm.res.status = "Ok") =>
      LET ranges == hmm.ranges
          maps == hmm.res.mappings
          backed == hmm.mem_path # "" \/ hmm.mem_share
      IN  /\ Len(maps) = Len(ranges)
          /\ \A i \in 1..Len(maps) :
               /\ maps[i].start_address = ranges[i][1]
               /\ maps[i].size = ranges[i][2]
               /\ backed => /\ maps[i].fd = maps[1].fd /\ maps[i].fd # -1
                            /\ maps[i].file_offset = SumSizes(ranges, i - 1)
               /\ ~backed => maps[i].fd = -1 /\ maps[i].file_offset = 0
          /\ backed =>
               \A i, j \in 1..Len(maps) :
                 i < j => /\ maps[i].file_offset + maps[i].size <= maps[j].file_offset
                          /\ maps[i].file_offset <= maps[j].file_offset

\* three ranges were mapped on a shared anonymous file, the third behind the
\* other two
C22_Witness ==
    /\ hmm # NoCall
    /\ hmm.res.status = "Ok"
    /\ hmm.mem_path = "" /\ hmm.mem_share
    /\ Len(hmm.res.mappings) = 3
    /\ hmm.res.mappings[3].file_offset = 3
    /\ hmm.res.mappings[2].file_offset = 2

(***************************************************************************)
(* Further claims about add_subregion and delete_subregion (checked under  *)
(* Spec).                                                                  *)
(***************************************************************************)
\* The back-link of r is empty, or the AddressSpace it points to is gone.
NoAddressSpace(r) == space[r] = "none" \/ ~as_alive

\* C23: on a container whose back-link is empty or dangling, add_subregion
\* with an offset that is valid and delete_subregion of a child with an equal
\* entry return Ok, change the list as they always do, request no FlatView
\* regeneration and leave the installed FlatView alone.
C23_NoAddressSpaceIsNotAnError ==
    [][/\ last'.op = "add_subregion" =>
            \A self \in Regions, child \in Children, off \in AddOffsets :
              (/\ NoAddressSpace(self)
               /\ region_type[self] = "Container"
               /\ off + size[child] <= size[self]
               /\ add_subregion(self, child, off)) =>
                    /\ last'.kind = "Ok" /\ ~last'.regen
                    /\ subregions' = [subregions EXCEPT
                                        ![self] = InsertChild(@, child, priority)]
                    /\ flat_view' = flat_view /\ space' = space
       /\ last'.op = "delete_subregion" =>
            \A self \in Regions, child \in Children :
              (/\ NoAddressSpace(self)
               /\ ~NoEntryEquals(self, child)
               /\ delete_subregion(self, child)) =>
                    /\ last'.kind = "Ok" /\ ~last'.regen
                    /\ \E k \in 1..Len(subregions[self]) :
                         /\ RegionEq(child, subregions[self][k], Heap)
                         /\ subregions' = [subregions EXCEPT ![self] = RemoveAt(@, k)]
                    /\ flat_view' = flat_view]_vars

\* after the AddressSpace was dropped, the root took a Ram region and
\* returned Ok; no FlatView was made for it
C23_Witness ==
    /\ ~as_alive
    /\ last.op = "add_subregion" /\ last.kind = "Ok" /\ ~last.regen
    /\ space[Root] = "as"
    /\ subregions[Root] # <<>>
    /\ region_type[subregions[Root][1]] = "Ram"
    /\ flat_view = <<>>

ChildrenOf(r) == { subregions[r][i] : i \in 1..Len(subregions[r]) }

\* The regions of S and the regions listed below them, at any depth.
RECURSIVE Below(_, _)
Below(S, n) ==
    LET T == S \cup UNION { ChildrenOf(p) : p \in S }
    IN  IF n = 0 \/ T = S THEN S ELSE Below(T, n - 1)

Descendants(r) == Below(ChildrenOf(r), Cardinality(Regions))

\* C25: after add_subregion and delete_subregion calls that all returned Ok,
\* every region below the root of the live AddressSpace has its back-link
\* set, and every other region but the root has an empty back-link.
C25_BackLinksFollowTree ==
    (fresh_only /\ as_alive) =>
      \A r \in Children :
        /\ r \in Descendants(Root) => space[r] = "as"
        /\ r \notin Descendants(Root) => space[r] = "none"

\* C26: the entry delete_subregion(child) removes is an entry of child
\* itself, and no other entry goes.
C26_DeleteRemovesChildItself ==
    [][last'.op = "delete_subregion" =>
       \A self \in Regions, child \in Children :
         (delete_subregion(self, child) /\ subregions'[self] # subregions[self]) =>
            \E k \in 1..Len(subregions[self]) :
              /\ subregions[self][k] = child
              /\ subregions'[self] = RemoveAt(subregions[self], k)]_vars

\* C27: no container is below itself, and no call ends in unbounded
\* recursion of the rendering.
C27_AcyclicAndTerminating ==
    /\ \A r \in Regions : r \notin Descendants(r)
    /\ last.op \in {"add_subregion", "delete_subregion"} => last.kind # "StackOverflow"

\* C29: an add_subregion that returns an error leaves the subregion lists,
\* the offset of the child and its back-link as they were, and a
\* delete_subregion that returns an error leaves the lists and the
\* back-links as they were.
C29_FailedCallChangesNothing ==
    [][/\ (last'.op = "add_subregion" /\ last'.kind \in {"RegionType", "Overflow", "Exceeds"}) =>
            UNCHANGED <<subregions, offset, space>>
       /\ (last'.op = "delete_subregion" /\ last'.kind \in {"NoMatch", "Exceeds"}) =>
            UNCHANGED <<subregions, space>>]_vars

(***************************************************************************)
(* SpecThreads: calls made concurrently on the regions of one AddressSpace.*)
(* Threads 1 and 2 each make one add_subregion or delete_subregion call,   *)
(* thread 3 one generate_flatview call on the root.  A step is what a call *)
(* does between two lock operations.  Cells are locked as the code locks   *)
(* them: the subregions RwLock of a region and its space RwLock; a write   *)
(* of a space cell and the lock of an offset Mutex are held for one access *)
(* only and are part of the step that makes it.                            *)
(*                                                                         *)
(* thr.pc: thread -> position; thr.prog: thread -> its call; thr.index:    *)
(* thread -> the index of its loop; thr.target: thread -> the entry its    *)
(* scan found; thr.result: thread -> what its call returned;               *)
(* thr.space_readers: region -> threads holding its space read lock;       *)
(* thr.subs_writer: region -> the thread holding its subregions write lock *)
(* (0: none); thr.subs_readers: region -> read locks the renderer holds;   *)
(* thr.stack, thr.view: the frames and the FlatView of the rendering of    *)
(* thread 3.  History: thr.ins, thr.rem: container -> region -> entries    *)
(* inserted and removed by calls; thr.initial: the lists at the start;     *)
(* thr.heaps: the heaps that existed since thread 3 made its call.         *)
(***************************************************************************)
Mutators == {1, 2}
Renderer == 3
Threads == Mutators \cup {Renderer}

ThreadTypes == <<"Container", "Container", "Container", "IO", "IO">>
ThreadSizes == <<4, 2, 2, 1, 1>>
ThreadPriorities == <<0, 0, 1, 1, 0>>
ThreadOffsets == <<0, 0, 2, 0, 0>>
ThreadAdds == << <<1, 2>>, <<1, 3>>, <<2, 4>> >>

\* The calls threads 1 and 2 choose from.
Programs ==
    { [op |-> "add_subregion", self |-> 2, child |-> 3, off |-> 0],
      [op |-> "add_subregion", self |-> 3, child |-> 2, off |-> 0],
      [op |-> "add_subregion", self |-> 2, child |-> 5, off |-> 0],
      [op |-> "add_subregion", self |-> 3, child |-> 5, off |-> 0],
      [op |-> "delete_subregion", self |-> 2, child |-> 4] }

Start(prog) ==
    IF prog.op = "add_subregion" THEN "add_check"
    ELSE IF prog.op = "delete_subregion" THEN "del_lock"
    ELSE "gf_call"

threadframe == <<region_type, size, priority, as_alive, aborted, last, ncalls,
                 fresh_only, gf, mem, access, ioevt, hmm>>

InitThreads ==
    /\ region_type = ThreadTypes
    /\ size = ThreadSizes
    /\ priority = ThreadPriorities
    /\ offset = ThreadOffsets
    /\ subregions = BuildSubregions([r \in 1..5 |-> <<>>], ThreadAdds, priority)
    /\ space = [r \in 1..5 |-> IF r = 5 THEN "none" ELSE "as"]
    /\ as_alive = TRUE
    /\ flat_view = update_topology(Heap).view
    /\ aborted = FALSE
    /\ last = NoCall
    /\ ncalls = 0
    /\ fresh_only = TRUE
    /\ gf = NoCall
    /\ mem = [r \in 1..5 |-> <<>>]
    /\ access = NoCall
    /\ ioevt = NoCall
    /\ hmm = NoCall
    /\ \E progs \in [Mutators -> Programs] :
         LET prog == [t \in Threads |->
                        IF t = Renderer THEN [op |-> "generate_flatview"] ELSE progs[t]]
         IN  thr = [pc |-> [t \in Threads |-> Start(prog[t])],
                    prog |-> prog,
                    index |-> [t \in Threads |-> 0],
                    target |-> [t \in Threads |-> 0],
                    result |-> [t \in Threads |-> "none"],
                    space_readers |-> [r \in 1..5 |-> {}],
                    subs_writer |-> [r \in 1..5 |-> 0],
                    subs_readers |-> [r \in 1..5 |-> 0],
                    stack |-> <<>>,
                    view |-> <<>>,
                    ins |-> [p \in 1..5 |-> [r \in 1..5 |-> 0]],
                    rem |-> [p \in 1..5 |-> [r \in 1..5 |-> 0]],
                    initial |-> subregions,
                    heaps |-> {}]

\* The rendering of thread 3 is between its call and its return.
Rendering == thr.pc[Renderer] = "gf_loop"

\* thr.heaps after a step of thread 1 or 2 that leaves the heap h.
Seen(h) == IF Rendering THEN thr.heaps \cup {h} ELSE thr.heaps

\* A write lock that is given while others hold the lock.
WriteNeverWaits(r) == TRUE

\* self.subregions.write() returns: no reader and no writer holds the lock.
can_write_subregions(r) == thr.subs_writer[r] = 0 /\ thr.subs_readers[r] = 0

\* self.subregions.read() returns: no writer holds the lock.
can_read_subregions(r) == thr.subs_writer[r] = 0

\* space.write() of region r returns: no reader holds the lock.
can_write_space(r) == thr.space_readers[r] = {}

\* update_topology can read every list: no subregions lock is write-held.
can_update_topology == \A r \in Regions : can_read_subregions(r)

\* add_subregion up to set_offset.
AddCheck(t) ==
    LET self == thr.prog[t].self
        child == thr.prog[t].child
        off == thr.prog[t].off
    IN  /\ thr.pc[t] = "add_check"
        /\ IF NotContainer(self)
           THEN /\ thr' = [thr EXCEPT !.pc[t] = "done", !.result[t] = "RegionType"]
                /\ UNCHANGED offset
           ELSE IF ~check_valid_offset(self, off, size[child])
           THEN /\ thr' = [thr EXCEPT !.pc[t] = "done", !.result[t] = "Overflow"]
                /\ UNCHANGED offset
           ELSE /\ offset' = [offset EXCEPT ![child] = off]
                /\ thr' = [thr EXCEPT !.pc[t] = "add_space",
                                      !.heaps = Seen([offset |-> offset',
                                                      subregions |-> subregions])]
        /\ UNCHANGED <<space, subregions, flat_view, threadframe>>

\* if let Some(space) = self.space.read().unwrap().upgrade(): the read lock
\* is kept for the body.
AddSpace(t) ==
    LET self == thr.prog[t].self
    IN  /\ thr.pc[t] = "add_space"
        /\ IF Upgrades(self, space)
           THEN thr' = [thr EXCEPT !.pc[t] = "add_set_space",
                                   !.space_readers[self] = @ \cup {t}]
           ELSE thr' = [thr EXCEPT !.pc[t] = "add_lock"]
        /\ UNCHANGED <<offset, space, subregions, flat_view, threadframe>>

\* child.set_belonged_address_space(&space), then the read lock is dropped.
AddSetSpace(t) ==
    LET self == thr.prog[t].self
        child == thr.prog[t].child
    IN  /\ thr.pc[t] = "add_set_space"
        /\ can_write_space(child)
        /\ space' = [space EXCEPT ![child] = "as"]
        /\ thr' = [thr EXCEPT !.pc[t] = "add_lock",
                              !.space_readers[self] = @ \ {t}]
        /\ UNCHANGED <<offset, subregions, flat_view, threadframe>>

\* let mut sub_regions = self.subregions.write().unwrap(); index = 0.
AddLock(t) ==
    LET self == thr.prog[t].self
    IN  /\ thr.pc[t] = "add_lock"
        /\ can_write_subregions(self)
        /\ thr' = [thr EXCEPT !.pc[t] = "add_loop", !.index[t] = 1,
                              !.subs_writer[self] = t]
        /\ UNCHANGED <<offset, space, subregions, flat_view, threadframe>>

\* One round of the while loop, or the insert and the drop after it.
AddLoop(t) ==
    LET self == thr.prog[t].self
        child == thr.prog[t].child
        index == thr.index[t]
        sub_regions == subregions[self]
    IN  /\ thr.pc[t] = "add_loop"
        /\ IF index <= Len(sub_regions) /\ ~(priority[child] >= priority[sub_regions[index]])
           THEN /\ thr' = [thr EXCEPT !.index[t] = index + 1]
                /\ UNCHANGED subregions
           ELSE IF index > Len(sub_regions) + 1
           THEN /\ thr' = [thr EXCEPT !.pc[t] = "done", !.result[t] = "Panic",
                                      !.subs_writer[self] = 0]
                /\ UNCHANGED subregions
           ELSE /\ subregions' = [subregions EXCEPT ![self] = InsertAt(@, index, child)]
                /\ thr' = [thr EXCEPT !.pc[t] = "add_topology",
                                      !.subs_writer[self] = 0,
                                      !.ins[self][child] = @ + 1,
                                      !.heaps = Seen([offset |-> offset,
                                                      subregions |-> subregions'])]
        /\ UNCHANGED <<offset, space, flat_view, threadframe>>

\* The second if let of add_subregion and the one of delete_subregion:
\* update_topology when the AddressSpace is there; next is the position
\* after an Ok.
Topology(t, at, next) ==
    LET self == thr.prog[t].self
    IN  /\ thr.pc[t] = at
        /\ IF ~Upgrades(self, space)
           THEN /\ thr' = [thr EXCEPT !.pc[t] = next,
                                      !.result[t] = IF next = "done" THEN "Ok" ELSE @]
                /\ UNCHANGED flat_view
           ELSE /\ can_update_topology
                /\ \E res \in {update_topology(Heap)} :
                     /\ flat_view' = install_flat_view(res, flat_view)
                     /\ thr' = [thr EXCEPT
                                  !.pc[t] = IF res.status = "ok" THEN next ELSE "done",
                                  !.result[t] =
                                      IF res.status = "stack" THEN "StackOverflow"
                                      ELSE IF res.status = "exceeds" THEN "Exceeds"
                                      ELSE IF next = "done" THEN "Ok" ELSE @]
        /\ UNCHANGED <<offset, space, subregions, threadframe>>

AddTopology(t) == Topology(t, "add_topology", "done")

\* let mut sub_regions = self.subregions.write().unwrap() of delete_subregion.
DelLock(t) ==
    LET self == thr.prog[t].self
    IN  /\ thr.pc[t] = "del_lock"
        /\ can_write_subregions(self)
        /\ thr' = [thr EXCEPT !.pc[t] = "del_scan", !.index[t] = 1,
                              !.subs_writer[self] = t]
        /\ UNCHANGED <<offset, space, subregions, flat_view, threadframe>>

\* One round of the for loop up to the comparison.
DelScan(t) ==
    LET self == thr.prog[t].self
        child == thr.prog[t].child
        index == thr.index[t]
        sub_regions == subregions[self]
    IN  /\ thr.pc[t] = "del_scan"
        /\ IF index > Len(sub_regions)
           THEN thr' = [thr EXCEPT !.pc[t] = "done", !.result[t] = "NoMatch",
                                   !.subs_writer[self] = 0]
           ELSE IF RegionEq(child, sub_regions[index], Heap)
           THEN thr' = [thr EXCEPT !.pc[t] = "del_remove",
                                   !.target[t] = sub_regions[index]]
           ELSE thr' = [thr EXCEPT !.index[t] = index + 1]
        /\ UNCHANGED <<offset, space, subregions, flat_view, threadframe>>

\* sub_regions.remove(index) and the drop after the loop.
DelRemove(t) ==
    LET self == thr.prog[t].self
        index == thr.index[t]
    IN  /\ thr.pc[t] = "del_remove"
        /\ IF index > Len(subregions[self])
           THEN /\ thr' = [thr EXCEPT !.pc[t] = "done", !.result[t] = "Panic",
                                      !.subs_writer[self] = 0]
                /\ UNCHANGED subregions
           ELSE /\ subregions' = [subregions EXCEPT ![self] = RemoveAt(@, index)]
                /\ thr' = [thr EXCEPT !.pc[t] = "del_topology",
                                      !.subs_writer[self] = 0,
                                      !.rem[self][thr.target[t]] = @ + 1,
                                      !.heaps = Seen([offset |-> offset,
                                                      subregions |-> subregions'])]
        /\ UNCHANGED <<offset, space, flat_view, threadframe>>

DelTopology(t) == Topology(t, "del_topology", "del_space")

\* child.del_belonged_address_space().
DelSpace(t) ==
    LET child == thr.prog[t].child
    IN  /\ thr.pc[t] = "del_space"
        /\ can_write_space(child)
        /\ space' = [space EXCEPT ![child] = "none"]
        /\ thr' = [thr EXCEPT !.pc[t] = "done", !.result[t] = "Ok"]
        /\ UNCHANGED <<offset, subregions, flat_view, threadframe>>

(***************************************************************************)
(* generate_flatview of the root by thread 3.  A frame of thr.stack is a   *)
(* call of render_region_pass on a container inside its for loop: the      *)
(* container, its absolute base, the window of its children and the index  *)
(* of the next child; the read lock of its list is held.                   *)
(***************************************************************************)
Frame(r, region_base, intersect, idx) ==
    [r |-> r, base |-> region_base, clip |-> intersect, idx |-> idx]

\* The rendering returned kind; every read lock is dropped.
GfReturn(kind, view) ==
    [thr EXCEPT !.pc[Renderer] = "done", !.result[Renderer] = kind,
                !.view = view, !.stack = <<>>,
                !.subs_readers = [r \in Regions |-> 0]]

\* render_region_pass on container r from the frames stack1.
GfEnter(r, base, addr_range, stack1) ==
    LET region_base == unchecked_add(base, offset[r])
        intersect == find_intersection(AddressRange(region_base, size[r]), addr_range)
    IN  IF intersect = NoRange
        THEN thr' = GfReturn("Exceeds", <<>>)
        ELSE IF Len(stack1) >= Fuel
        THEN thr' = GfReturn("StackOverflow", <<>>)
        ELSE /\ can_read_subregions(r)
             /\ thr' = [thr EXCEPT !.pc[Renderer] = "gf_loop",
                                   !.stack = Append(stack1, Frame(r, region_base, intersect, 1)),
                                   !.subs_readers[r] = @ + 1,
                                   !.heaps = @ \cup {Heap}]

\* generate_flatview(base, addr_range) is called on the root.
GfCall(base, addr_range) ==
    /\ thr.pc[Renderer] = "gf_call"
    /\ GfEnter(Root, base, addr_range, <<>>)
    /\ UNCHANGED <<offset, space, subregions, flat_view, threadframe>>

\* One round of the for loop of the innermost render_region_pass, or its
\* return.
GfLoop ==
    /\ thr.pc[Renderer] = "gf_loop"
    /\ LET depth == Len(thr.stack)
           f == thr.stack[depth]
       IN  IF f.idx > Len(subregions[f.r])
           THEN IF depth = 1
                THEN thr' = GfReturn("Ok", thr.view)
                ELSE thr' = [thr EXCEPT !.stack = SubSeq(@, 1, depth - 1),
                                        !.subs_readers[f.r] = @ - 1]
           ELSE LET sub_r == subregions[f.r][f.idx]
                    stack1 == [thr.stack EXCEPT ![depth].idx = @ + 1]
                IN  IF region_type[sub_r] = "Container"
                    THEN GfEnter(sub_r, f.base, f.clip, stack1)
                    ELSE \E res \in {render_terminate_region(sub_r, f.base, f.clip,
                                                             Render("ok", thr.view, FALSE),
                                                             Heap)} :
                           IF res.status = "ok"
                           THEN thr' = [thr EXCEPT !.stack = stack1, !.view = res.view]
                           ELSE thr' = GfReturn("Exceeds", <<>>)
    /\ UNCHANGED <<offset, space, subregions, flat_view, threadframe>>

NextThreads ==
    \/ \E t \in Mutators : AddCheck(t)
    \/ \E t \in Mutators : AddSpace(t)
    \/ \E t \in Mutators : AddSetSpace(t)
    \/ \E t \in Mutators : AddLock(t)
    \/ \E t \in Mutators : AddLoop(t)
    \/ \E t \in Mutators : AddTopology(t)
    \/ \E t \in Mutators : DelLock(t)
    \/ \E t \in Mutators : DelScan(t)
    \/ \E t \in Mutators : DelRemove(t)
    \/ \E t \in Mutators : DelTopology(t)
    \/ \E t \in Mutators : DelSpace(t)
    \/ GfCall(0, AddressRange(0, size[Root]))
    \/ GfLoop

SpecThreads == InitThreads /\ [][NextThreads]_vars

(***************************************************************************)
(* Claims about concurrent calls (checked under SpecThreads).              *)
(***************************************************************************)
Count(s, r) == Cardinality({ i \in 1..Len(s) : s[i] = r })

Descending(s) == \A i, j \in 1..Len(s) : i < j => priority[s[i]] >= priority[s[j]]

\* C24: concurrent add_subregion and delete_subregion calls on one container
\* lose and duplicate nothing: whenever no call is inside the write lock of a
\* list, the list holds each region as often as it did at the start, plus
\* the entries inserted, minus the entries the scans of the delete calls
\* found; it is in descending priority order, and no call found its index
\* outside the list.
C24_WritersExclusive ==
    thr # NoCall =>
      /\ \A t \in Threads : thr.result[t] # "Panic"
      /\ \A p \in Regions :
           thr.subs_writer[p] = 0 =>
             /\ \A r \in Regions :
                  Count(subregions[p], r) =
                      Count(thr.initial[p], r) + thr.ins[p][r] - thr.rem[p][r]
             /\ Descending(subregions[p])

\* two calls on the same container have returned Ok, one after inserting
\* and one after removing an entry
C24_Witness ==
    /\ thr # NoCall
    /\ thr.prog[1].self = 2 /\ thr.prog[2].self = 2
    /\ thr.result[1] = "Ok" /\ thr.result[2] = "Ok"
    /\ thr.ins[2][5] = 1 /\ thr.rem[2][4] = 1
    /\ subregions[2] = <<5>>

\* Thread t is at a lock that is not given to it in this state.
Blocked(t) ==
    LET pc == thr.pc[t]
    IN  IF t = Renderer
        THEN IF pc = "gf_call" THEN ~can_read_subregions(Root)
             ELSE IF pc = "gf_loop"
             THEN LET f == thr.stack[Len(thr.stack)]
                  IN  /\ f.idx <= Len(subregions[f.r])
                      /\ LET sub_r == subregions[f.r][f.idx]
                         IN  /\ region_type[sub_r] = "Container"
                             /\ find_intersection(
                                    AddressRange(unchecked_add(f.base, offset[sub_r]),
                                                 size[sub_r]), f.clip) # NoRange
                             /\ Len(thr.stack) < Fuel
                             /\ ~can_read_subregions(sub_r)
             ELSE FALSE
        ELSE \/ pc \in {"add_set_space", "del_space"} /\ ~can_write_space(thr.prog[t].child)
             \/ pc \in {"add_lock", "del_lock"} /\ ~can_write_subregions(thr.prog[t].self)
             \/ /\ pc \in {"add_topology", "del_topology"}
                /\ Upgrades(thr.prog[t].self, space)
                /\ ~can_update_topology

\* C28: as long as a call has not returned, some call that has not returned
\* can take a step.
C28_NoDeadlock ==
    (thr # NoCall /\ \E t \in Threads : thr.pc[t] # "done") =>
        \E t \in Threads : thr.pc[t] # "done" /\ ~Blocked(t)

\* C30: what generate_flatview returns while add_subregion and
\* delete_subregion calls run is what it returns on one of the trees that
\* existed between its call and its return.
C30_ConsistentSnapshot ==
    (thr # NoCall /\ thr.pc[Renderer] = "done") =>
      \E h \in thr.heaps :
        \E res \in {generate_flatview(Root, 0, AddressRange(0, size[Root]), h)} :
          /\ res.view = thr.view
          /\ res.status = "ok" <=> thr.result[Renderer] = "Ok"

====
